---- MODULE Spec2Model ----
(***************************************************************************)
(* Vacation-period search and ranking engine of src/src/App.tsx            *)
(* (component VacationCalculator, handler handleCalculate).                *)
(*                                                                         *)
(* A JavaScript Date is modelled by its local wall-clock reading, counted  *)
(* in hours: d = (local calendar day) * TPD + (local hour of the day).     *)
(* setDate / getDay / setHours work on that reading; getTime and the       *)
(* relational operators on Dates work on the instant, which differs from   *)
(* the reading by the host zone's UTC offset.  The offset is constant      *)
(* except for at most one daylight-saving transition (variable dst).       *)
(* Local day n falls on weekday n % 7, 0 = Sunday (Date#getDay).           *)
(*                                                                         *)
(* Specifications:                                                         *)
(*   Spec           Calculate on any small form                            *)
(*   SpecScenarioA  Calculate on the form of Scenario A (January 2025)     *)
(*   SpecSearch     one findBestAvailablePeriods call with existing        *)
(*                  periods and a gap                                      *)
(*   SpecHolidays   the holiday memo under form edits                      *)
(*   SpecForm       form edits, toggles and Calculate                      *)
(*   SpecSteps      Calculate unrolled loop by loop, with weak fairness    *)
(***************************************************************************)
EXTENDS Integers, Sequences, FiniteSets

\* ---------------------------------------------------------------- bounds
\* longest horizon, in days between the two horizon dates
MaxSpan == 7
\* largest number an input field for vacation days is given
MaxDays == 3
\* local days the horizon may start on: one full week, Sunday to Saturday
StartDays == 7..13
\* local hours a form date can carry: a date typed into a date field is
\* UTC midnight (01:00 in a UTC+1 host), an untouched default is "now"
Tods == {1, 14}
\* local days on which a calendar year begins: day 10 is Wednesday
\* 2025-01-01, day 375 is Thursday 2026-01-01
NewYearDays == {10, 375}
\* local hour of a provider holiday start (midnight of the country's zone)
HolidayTod == 3
\* largest minGapBetweenPeriods a search is called with (its default is 3)
MaxGap == 3
\* Scenario A: days of its horizon kept beyond Friday 2025-01-10; the
\* horizon's last day is any of them
ScenarioTail == 12
\* local wall-clock readings at which the host zone may change its offset
\* (Sunday 02:00)
DstTransitions == {14 * 24 + 2}

\* ------------------------------------------------------------- constants
\* one day, in hours (the code divides milliseconds by 1000*60*60*24)
TPD == 24
\* an Invalid Date (time value NaN)
InvalidDate == -TPD
\* the number NaN, which parseInt returns for a string with no leading digits
NaN == -999

VARIABLES
    formData,           \* the form: minVacationDays, maxVacationDays, startDate, endDate, ...
    holidays,           \* the memoized holiday list: sequence of [date, name]
    vacationPeriods,    \* the published, ranked periods
    showCalendars,      \* results view visible
    expandedExtraDays,  \* expanded extra-days groups
    expandedPeriods,    \* expanded period rows
    searchResults,      \* log of the last sweep: arguments and outcome of each
                        \* findBestAvailablePeriods call
    uncaughtError,      \* an exception left handleCalculate
    dst,                \* host zone: [on, at, shift]
    provider,           \* the holiday provider's spans [start, end, name), per region
    isMinimized,        \* form card minimized
    run                 \* handleCalculate in progress: its position and locals

vars == <<formData, holidays, vacationPeriods, showCalendars,
          expandedExtraDays, expandedPeriods, searchResults, uncaughtError, dst,
          provider, isMinimized, run>>

\* handleCalculate not running
IdleRun ==
    [pc |-> "idle", vacationDays |-> 0, currentDate |-> 0, vacationEndDate |-> 0,
     extraStartDate |-> 0, extraEndDate |-> 0, tempDate |-> 0,
     candidatePeriods |-> <<>>, all |-> <<>>, log |-> <<>>]

\* ---------------------------------------------------------------- numbers
\* a <= b and a > b on JavaScript numbers: false when either side is NaN
NumLeq(a, b) == a # NaN /\ b # NaN /\ a <= b

NumGt(a, b) == a # NaN /\ b # NaN /\ a > b

\* the decimal digits, Digits[v + 1] being the digit of value v
Digits == <<"0", "1", "2", "3", "4", "5", "6", "7", "8", "9">>

IsDigit(c) == \E v \in 1..Len(Digits) : Digits[v] = c

DigitValue(c) == (CHOOSE v \in 1..Len(Digits) : Digits[v] = c) - 1

\* the value of the longest run of digits of str from position i on
RECURSIVE DigitRun(_, _, _)
DigitRun(str, i, value) ==
    IF i <= Len(str) /\ IsDigit(str[i])
    THEN DigitRun(str, i + 1, value * 10 + DigitValue(str[i]))
    ELSE value

\* parseInt(str, 10) for a string given as the sequence of its characters:
\* an optional sign, then the leading digits; NaN when there is none
parseInt(str) ==
    LET signed == Len(str) >= 1 /\ str[1] \in {"-", "+"}
        first == IF signed THEN 2 ELSE 1
    IN IF first <= Len(str) /\ IsDigit(str[first])
       THEN (IF signed /\ str[1] = "-" THEN -1 ELSE 1) * DigitRun(str, first, 0)
       ELSE NaN

\* ------------------------------------------------------------ Date model
\* UTC offset change in force at local reading d
Off(d) == IF dst.on /\ d >= dst.at THEN dst.shift ELSE 0

\* Date#getTime, in hours
getTime(d) == d - Off(d)

\* isNaN(date.getTime())
isNaN(d) == d = InvalidDate

\* d.setDate(d.getDate() + n): same wall-clock hour, n calendar days later
AddDays(d, n) == d + n * TPD

\* Date#getDay: 0 = Sunday .. 6 = Saturday
getDay(d) == (d \div TPD) % 7

\* d.setHours(0, 0, 0, 0)
setHours0(d) == d - (d % TPD)

\* mutant of DateGt: ">=" for ">"
DateGtOrEqual(a, b) == getTime(a) >= getTime(b)

\* mutant of DateGt: the two dates compared by calendar day only
DateGtByDay(a, b) == getTime(setHours0(a)) > getTime(setHours0(b))

\* a <= b, a > b on Date objects compare the time values
DateLeq(a, b) == getTime(a) <= getTime(b)
DateGt(a, b) == getTime(a) > getTime(b)

\* ------------------------------------------------------ day classification
isHoliday(date) ==
    LET normalizedDate == setHours0(date)
    IN \E i \in 1..Len(holidays) :
          getTime(setHours0(holidays[i].date)) = getTime(normalizedDate)

\* mutant of isWeekendOrHoliday: holidays forgotten
isWeekendOnly(date) ==
    LET day == getDay(date)
    IN day = 0 \/ day = 6

isWeekendOrHoliday(date) ==
    LET day == getDay(date)
    IN day = 0 \/ day = 6 \/ isHoliday(date)

\* ------------------------------------------------------- window expansion
RECURSIVE ExtraStartLoop(_, _)
ExtraStartLoop(extraStartDate, tempDate) ==
    IF isWeekendOrHoliday(tempDate)
    THEN ExtraStartLoop(AddDays(extraStartDate, -1), AddDays(tempDate, -1))
    ELSE extraStartDate

\* mutant of calculateExtraStartDate: one probe only (if for while)
calculateExtraStartDateOnce(vacationStartDate) ==
    IF isWeekendOrHoliday(AddDays(vacationStartDate, -1))
    THEN AddDays(vacationStartDate, -1)
    ELSE vacationStartDate

calculateExtraStartDate(vacationStartDate) ==
    ExtraStartLoop(vacationStartDate, AddDays(vacationStartDate, -1))

RECURSIVE ExtraEndLoop(_, _)
ExtraEndLoop(extraEndDate, tempDate) ==
    IF isWeekendOrHoliday(tempDate)
    THEN ExtraEndLoop(AddDays(extraEndDate, 1), AddDays(tempDate, 1))
    ELSE extraEndDate

\* mutant of calculateExtraEndDate: the probe starts one day too far
calculateExtraEndDateSkip(vacationEndDate) ==
    ExtraEndLoop(vacationEndDate, AddDays(vacationEndDate, 2))

calculateExtraEndDate(vacationEndDate) ==
    ExtraEndLoop(vacationEndDate, AddDays(vacationEndDate, 1))

\* ---------------------------------------------------------- overlap check
\* mutant of checkForOverlaps: windows that only touch do not overlap
checkForOverlapsStrict(startDate, endDate, existingPeriods, minGapBetweenPeriods) ==
    LET bufferStartDate == AddDays(startDate, -minGapBetweenPeriods)
        bufferEndDate == AddDays(endDate, minGapBetweenPeriods)
    IN \E i \in 1..Len(existingPeriods) :
          /\ getTime(bufferStartDate) < getTime(existingPeriods[i].endDate)
          /\ getTime(existingPeriods[i].startDate) < getTime(bufferEndDate)

checkForOverlaps(startDate, endDate, existingPeriods, minGapBetweenPeriods) ==
    LET bufferStartDate == AddDays(startDate, -minGapBetweenPeriods)
        bufferEndDate == AddDays(endDate, minGapBetweenPeriods)
    IN \E i \in 1..Len(existingPeriods) :
          /\ DateLeq(bufferStartDate, existingPeriods[i].endDate)
          /\ DateLeq(existingPeriods[i].startDate, bufferEndDate)

calculateTotalDaysOff(period) ==
    ((getTime(period.endDate) - getTime(period.startDate)) \div TPD) + 1

\* ----------------------------------------------------------------- sorting
\* mutant of StableSort: elements that compare equal come out in reverse order
ReversingSort(s, before) ==
    LET n == Len(s)
        rank(i) == Cardinality({j \in 1..n :
                       \/ before[j, i]
                       \/ (~before[i, j] /\ j > i)})
    IN [p \in 1..n |-> s[CHOOSE i \in 1..n : rank(i) = p - 1]]

\* Array#sort with a comparator: stable; before[i, j] is
\* "compare(s[i], s[j]) < 0".  Element i lands after every element that
\* compares before it and after every earlier element that compares equal to it.
StableSort(s, before) ==
    LET n == Len(s)
        rank(i) == Cardinality({j \in 1..n :
                       \/ before[j, i]
                       \/ (~before[i, j] /\ j < i)})
    IN [p \in 1..n |-> s[CHOOSE i \in 1..n : rank(i) = p - 1]]

Abs(x) == IF x < 0 THEN -x ELSE x

\* ------------------------------------------------- search for one day-count
\* mutant of isWorkdayStart: holidays forgotten
isWorkdayStartNoHoliday(currentDate) ==
    getDay(currentDate) # 0 /\ getDay(currentDate) # 6

\* the test a scanned date passes to start a vacation
isWorkdayStart(currentDate) ==
    getDay(currentDate) # 0 /\ getDay(currentDate) # 6 /\ ~isHoliday(currentDate)

\* mutant of vacationEndDateOf: the "- 1" forgotten
vacationEndDateOffByOne(vacationStartDate, daysCount) ==
    AddDays(vacationStartDate, daysCount)

\* vacationEndDate is a copy of vacationStartDate, so setting its day-of-month
\* to vacationStartDate.getDate() + daysCount - 1 moves it daysCount - 1 days on
vacationEndDateOf(vacationStartDate, daysCount) ==
    AddDays(vacationStartDate, daysCount - 1)

\* the while loop of findBestAvailablePeriods; returns candidatePeriods
RECURSIVE ScanLoop(_, _, _, _, _, _)
ScanLoop(currentDate, maxSearchDate, existingPeriods, daysCount, minGapBetweenPeriods, candidatePeriods) ==
    IF ~DateLeq(currentDate, maxSearchDate) THEN candidatePeriods
    ELSE IF isWorkdayStart(currentDate)
    THEN LET vacationStartDate == currentDate
             vacationEndDate == vacationEndDateOf(vacationStartDate, daysCount)
         IN IF DateGt(vacationEndDate, maxSearchDate) THEN candidatePeriods
            ELSE LET extraStartDate == calculateExtraStartDate(vacationStartDate)
                     extraEndDate == calculateExtraEndDate(vacationEndDate)
                     overlaps == checkForOverlaps(extraStartDate, extraEndDate,
                                                  existingPeriods, minGapBetweenPeriods)
                     period == [startDate |-> extraStartDate,
                                endDate |-> extraEndDate,
                                usedStartDate |-> vacationStartDate,
                                usedEndDate |-> vacationEndDate,
                                daysCount |-> daysCount]
                     pushed == IF ~overlaps
                               THEN Append(candidatePeriods,
                                           [period |-> period,
                                            totalDaysOff |-> calculateTotalDaysOff(period)])
                               ELSE candidatePeriods
                 IN ScanLoop(AddDays(currentDate, 1), maxSearchDate, existingPeriods,
                             daysCount, minGapBetweenPeriods, pushed)
    ELSE ScanLoop(AddDays(currentDate, 1), maxSearchDate, existingPeriods,
                  daysCount, minGapBetweenPeriods, candidatePeriods)

\* mutant of SortCandidates: the tie-break subtracts the wrong way round
SortCandidatesFarthestFirst(candidatePeriods, startDate) ==
    LET Before(a, b) ==
            IF b.totalDaysOff # a.totalDaysOff
            THEN b.totalDaysOff - a.totalDaysOff < 0
            ELSE Abs(getTime(b.period.usedStartDate) - getTime(startDate))
                   - Abs(getTime(a.period.usedStartDate) - getTime(startDate)) < 0
        n == Len(candidatePeriods)
    IN StableSort(candidatePeriods,
                  [i \in 1..n, j \in 1..n |-> Before(candidatePeriods[i], candidatePeriods[j])])

\* candidatePeriods.sort(...) of findBestAvailablePeriods
SortCandidates(candidatePeriods, startDate) ==
    LET Before(a, b) ==
            IF b.totalDaysOff # a.totalDaysOff
            THEN b.totalDaysOff - a.totalDaysOff < 0
            ELSE Abs(getTime(a.period.usedStartDate) - getTime(startDate))
                   - Abs(getTime(b.period.usedStartDate) - getTime(startDate)) < 0
        n == Len(candidatePeriods)
    IN StableSort(candidatePeriods,
                  [i \in 1..n, j \in 1..n |-> Before(candidatePeriods[i], candidatePeriods[j])])

\* [thrown |-> TRUE] is the Error "Could not find any valid vacation period"
findBestAvailablePeriods(startDate, endDate, existingPeriods, daysCount, minGapBetweenPeriods) ==
    LET candidatePeriods == ScanLoop(startDate, endDate, existingPeriods,
                                     daysCount, minGapBetweenPeriods, <<>>)
        sorted == SortCandidates(candidatePeriods, startDate)
    IN IF Len(candidatePeriods) = 0
       THEN [thrown |-> TRUE, periods |-> <<>>]
       ELSE [thrown |-> FALSE,
             periods |-> [i \in 1..Len(sorted) |-> sorted[i].period]]

\* ------------------------------------------------------------- the sweep
\* mutant of SweepStep: no try/catch, the Error leaves the loop
SweepStepNoCatch(acc, vacationDays, currentStartDate, searchEndDate) ==
    LET r == findBestAvailablePeriods(currentStartDate, searchEndDate, <<>>,
                                      vacationDays, 0)
        outcome == [daysCount |-> vacationDays, thrown |-> r.thrown,
                    periods |-> r.periods,
                    existingPeriods |-> <<>>, minGapBetweenPeriods |-> 0]
    IN IF r.thrown
       THEN [acc EXCEPT !.escaped = TRUE]
       ELSE [acc EXCEPT !.all = @ \o r.periods, !.log = Append(@, outcome)]

\* one iteration of the for loop over vacationDays: try { ... } catch { }
\* acc = [all: allCandidatePeriods, log: outcome per call, escaped: an
\* exception left the loop]
SweepStep(acc, vacationDays, currentStartDate, searchEndDate) ==
    LET r == findBestAvailablePeriods(currentStartDate, searchEndDate, <<>>,
                                      vacationDays, 0)
        outcome == [daysCount |-> vacationDays, thrown |-> r.thrown,
                    periods |-> r.periods,
                    existingPeriods |-> <<>>, minGapBetweenPeriods |-> 0]
    IN IF r.thrown
       THEN [acc EXCEPT !.log = Append(@, outcome)]
       ELSE [acc EXCEPT !.all = @ \o r.periods, !.log = Append(@, outcome)]

\* mutant of SweepLoop: the catch block leaves the loop (break)
RECURSIVE SweepLoopBreak(_, _, _, _, _)
SweepLoopBreak(acc, vacationDays, maxVacationDays, currentStartDate, searchEndDate) ==
    IF \/ acc.escaped
       \/ ~NumLeq(vacationDays, maxVacationDays)
       \/ (Len(acc.log) > 0 /\ acc.log[Len(acc.log)].thrown)
    THEN acc
    ELSE SweepLoopBreak(SweepStep(acc, vacationDays, currentStartDate, searchEndDate),
                        vacationDays + 1, maxVacationDays, currentStartDate, searchEndDate)

RECURSIVE SweepLoop(_, _, _, _, _)
SweepLoop(acc, vacationDays, maxVacationDays, currentStartDate, searchEndDate) ==
    IF acc.escaped \/ ~NumLeq(vacationDays, maxVacationDays) THEN acc
    ELSE SweepLoop(SweepStep(acc, vacationDays, currentStartDate, searchEndDate),
                   vacationDays + 1, maxVacationDays, currentStartDate, searchEndDate)

\* extraDays as the filter and the final comparator compute it
ExtraDays(period) == calculateTotalDaysOff(period) - period.daysCount

\* mutant of FilterPeriods: ">= 0" for "> 0"
FilterPeriodsNonNegative(allCandidatePeriods) ==
    SelectSeq(allCandidatePeriods, LAMBDA period : ExtraDays(period) >= 0)

FilterPeriods(allCandidatePeriods) ==
    SelectSeq(allCandidatePeriods, LAMBDA period : ExtraDays(period) > 0)

\* mutant of SortPeriods: the comparison of extraDays forgotten
SortPeriodsByStartOnly(filteredPeriods) ==
    LET Before(a, b) == getTime(a.usedStartDate) - getTime(b.usedStartDate) < 0
        n == Len(filteredPeriods)
    IN StableSort(filteredPeriods,
                  [i \in 1..n, j \in 1..n |-> Before(filteredPeriods[i], filteredPeriods[j])])

SortPeriods(filteredPeriods) ==
    LET Before(a, b) ==
            IF ExtraDays(b) # ExtraDays(a)
            THEN ExtraDays(b) - ExtraDays(a) < 0
            ELSE getTime(a.usedStartDate) - getTime(b.usedStartDate) < 0
        n == Len(filteredPeriods)
    IN StableSort(filteredPeriods,
                  [i \in 1..n, j \in 1..n |-> Before(filteredPeriods[i], filteredPeriods[j])])

\* ------------------------------------------------------------------- form
hasErrors ==
    \/ isNaN(formData.startDate) \/ isNaN(formData.endDate)
    \/ DateLeq(formData.endDate, formData.startDate)
    \/ NumLeq(formData.minVacationDays, 0) \/ NumLeq(formData.maxVacationDays, 0)
    \/ NumGt(formData.minVacationDays, formData.maxVacationDays)

\* ------------------------------------------------------------ holiday list
\* Date#getFullYear
getFullYear(d) == 2024 + Cardinality({n \in NewYearDays : n * TPD <= d})

\* holidayCalendar.init(country, state); holidayCalendar.getHolidays(year):
\* the provider's spans of the region that begin in the year
getHolidays(workCountry, workState, year) ==
    LET spans == provider[<<workCountry, workState>>]
        InYear(h) == getFullYear(h.start) = year
    IN SelectSeq(spans, InYear)

\* mutant of SpanDays: the loop runs while currentDate <= end
RECURSIVE SpanDaysInclusive(_, _, _)
SpanDaysInclusive(currentDate, end, name) ==
    IF getTime(currentDate) <= getTime(end)
    THEN <<[date |-> currentDate, name |-> name]>>
           \o SpanDaysInclusive(AddDays(currentDate, 1), end, name)
    ELSE <<>>

\* while (currentDate < end) { push {date, name}; setDate(getDate() + 1) }
RECURSIVE SpanDays(_, _, _)
SpanDays(currentDate, end, name) ==
    IF getTime(currentDate) < getTime(end)
    THEN <<[date |-> currentDate, name |-> name]>>
           \o SpanDays(AddDays(currentDate, 1), end, name)
    ELSE <<>>

\* yearHolidays.forEach(h => ...), from the i-th span on
RECURSIVE YearHolidays(_, _)
YearHolidays(yearHolidays, i) ==
    IF i > Len(yearHolidays) THEN <<>>
    ELSE SpanDays(yearHolidays[i].start, yearHolidays[i].end, yearHolidays[i].name)
           \o YearHolidays(yearHolidays, i + 1)

\* for (let year = startYear; year <= endYear; year++)
RECURSIVE HolidayYears(_, _, _, _)
HolidayYears(workCountry, workState, year, endYear) ==
    IF year <= endYear
    THEN YearHolidays(getHolidays(workCountry, workState, year), 1)
           \o HolidayYears(workCountry, workState, year + 1, endYear)
    ELSE <<>>

\* const holidays = useMemo(...), for the form fd
holidaysMemo(fd) ==
    IF isNaN(fd.startDate) \/ isNaN(fd.endDate) THEN <<>>
    ELSE HolidayYears(fd.workCountry, fd.workState,
                      getFullYear(fd.startDate), getFullYear(fd.endDate))

\* a span of len whole days that the provider reports from local day `day` on
HolidaySpan(day, len, name) ==
    [start |-> day * TPD + HolidayTod, end |-> (day + len) * TPD + HolidayTod, name |-> name]

\* regions the two selects can name
Regions == {"BR", "US"} \X {"", "-"}

\* what the provider may hold for the selected region: nothing, a Thursday,
\* the Monday after, or both
SpanTables ==
    { <<>>,
      <<HolidaySpan(11, 1, "Thursday")>>,
      <<HolidaySpan(15, 1, "Monday")>>,
      <<HolidaySpan(11, 1, "Thursday"), HolidaySpan(15, 1, "Monday")>> }

\* further tables: a Thursday-and-Friday span, a three-day span that begins
\* on the last day of 2024, and two spans that share a day
HolidayTables ==
    SpanTables \cup
    { <<HolidaySpan(11, 2, "Bridge")>>,
      <<HolidaySpan(9, 3, "Turn of the year"), HolidaySpan(15, 1, "Monday")>>,
      <<HolidaySpan(11, 2, "Bridge"), HolidaySpan(12, 1, "Friday")>> }

DstChoices ==
    {[on |-> FALSE, at |-> 0, shift |-> 0]}
      \cup {[on |-> TRUE, at |-> t, shift |-> s] : t \in DstTransitions, s \in {-1, 1}}

\* The component before Calculate is pressed: no results yet, and a form that
\* holds whatever its fields were given (two horizon dates, the second
\* possibly cleared, and two day counts), with the holiday list memoized for it.
Init ==
    /\ dst \in DstChoices
    /\ \E T \in SpanTables :
          provider = [r \in Regions |-> IF r = <<"BR", "">> THEN T ELSE <<>>]
    /\ \E s \in {day * TPD + tod : day \in StartDays, tod \in Tods},
          mn \in 1..MaxDays, mx \in 1..MaxDays :
          \E e \in {setHours0(s) + n * TPD + tod : n \in 0..MaxSpan, tod \in Tods}
                       \cup {InvalidDate} :
             formData = [workCountry |-> "BR", workState |-> "",
                         minVacationDays |-> mn, maxVacationDays |-> mx,
                         startDate |-> s, endDate |-> e]
    /\ holidays = holidaysMemo(formData)
    /\ vacationPeriods = <<>>
    /\ showCalendars = FALSE
    /\ expandedExtraDays = {}
    /\ expandedPeriods = {}
    /\ searchResults = <<>>
    /\ uncaughtError = FALSE
    /\ isMinimized = FALSE
    /\ run = IdleRun

\* mutant of SweepStart: the collected periods of the last run are kept
SweepStartKeepsLast == [all |-> vacationPeriods, log |-> <<>>, escaped |-> FALSE]

\* const allCandidatePeriods = [] before the sweep
SweepStart == [all |-> <<>>, log |-> <<>>, escaped |-> FALSE]

\* mutant of handleCalculate: the two expanded-key sets are not reset
handleCalculateKeepsExpanded ==
    /\ ~hasErrors
    /\ LET swept == SweepLoop(SweepStart,
                              formData.minVacationDays, formData.maxVacationDays,
                              formData.startDate, formData.endDate)
       IN /\ searchResults' = swept.log
          /\ vacationPeriods' = SortPeriods(FilterPeriods(swept.all))
          /\ showCalendars' = TRUE
    /\ UNCHANGED <<formData, holidays, expandedExtraDays, expandedPeriods,
                   uncaughtError, dst, provider, isMinimized, run>>

\* onClick of the Calculate button, which is disabled while hasErrors()
handleCalculate ==
    /\ ~hasErrors
    /\ LET currentStartDate == formData.startDate
           searchEndDate == formData.endDate
           swept == SweepLoop(SweepStart,
                              formData.minVacationDays, formData.maxVacationDays,
                              currentStartDate, searchEndDate)
       IN /\ searchResults' = swept.log
          /\ IF swept.escaped
             THEN /\ uncaughtError' = TRUE
                  /\ UNCHANGED <<vacationPeriods, showCalendars,
                                 expandedExtraDays, expandedPeriods>>
             ELSE /\ uncaughtError' = uncaughtError
                  /\ vacationPeriods' = SortPeriods(FilterPeriods(swept.all))
                  /\ showCalendars' = TRUE
                  /\ expandedExtraDays' = {}
                  /\ expandedPeriods' = {}
    /\ UNCHANGED <<formData, holidays, dst, provider,
                   isMinimized, run>>

Next == handleCalculate

\* ------------------------------------------- handleCalculate, loop by loop
\* The same handler with each loop iteration a step of its own; run holds the
\* position and the locals.  The handler runs to completion: no other
\* handler is interleaved with it.

\* mutant of ScanAdvance: the increment sits inside the workday branch
ScanAdvanceInsideIf(currentDate) ==
    IF isWeekendOrHoliday(currentDate) THEN currentDate ELSE AddDays(currentDate, 1)

\* currentDate.setDate(currentDate.getDate() + 1), last statement of the scan
ScanAdvance(currentDate) == AddDays(currentDate, 1)

\* the click: handleCalculate is entered, vacationDays = minVacationDays
beginCalculate ==
    /\ run.pc = "idle"
    /\ ~hasErrors
    /\ run' = [IdleRun EXCEPT !.pc = "for", !.vacationDays = formData.minVacationDays]
    /\ UNCHANGED <<formData, holidays, vacationPeriods, showCalendars,
                   expandedExtraDays, expandedPeriods, searchResults,
                   uncaughtError, dst, provider, isMinimized>>

\* the for loop's test; findBestAvailablePeriods is entered if it holds
forTest ==
    /\ run.pc = "for"
    /\ run' = IF NumLeq(run.vacationDays, formData.maxVacationDays)
              THEN [run EXCEPT !.pc = "scan", !.currentDate = formData.startDate,
                               !.candidatePeriods = <<>>]
              ELSE [run EXCEPT !.pc = "publish"]
    /\ UNCHANGED <<formData, holidays, vacationPeriods, showCalendars,
                   expandedExtraDays, expandedPeriods, searchResults,
                   uncaughtError, dst, provider, isMinimized>>

\* one test of the while loop of the scan, up to the call of
\* calculateExtraStartDate
scanStep ==
    /\ run.pc = "scan"
    /\ run' =
         IF ~DateLeq(run.currentDate, formData.endDate)
         THEN [run EXCEPT !.pc = "return"]
         ELSE IF isWorkdayStart(run.currentDate)
         THEN LET vacationEndDate == vacationEndDateOf(run.currentDate, run.vacationDays)
              IN IF DateGt(vacationEndDate, formData.endDate)
                 THEN [run EXCEPT !.pc = "return"]
                 ELSE [run EXCEPT !.pc = "back",
                                  !.vacationEndDate = vacationEndDate,
                                  !.extraStartDate = run.currentDate,
                                  !.tempDate = AddDays(run.currentDate, -1)]
         ELSE [run EXCEPT !.currentDate = ScanAdvance(run.currentDate)]
    /\ UNCHANGED <<formData, holidays, vacationPeriods, showCalendars,
                   expandedExtraDays, expandedPeriods, searchResults,
                   uncaughtError, dst, provider, isMinimized>>

\* one test of the while loop of calculateExtraStartDate
backStep ==
    /\ run.pc = "back"
    /\ run' =
         IF isWeekendOrHoliday(run.tempDate)
         THEN [run EXCEPT !.extraStartDate = AddDays(run.extraStartDate, -1),
                          !.tempDate = AddDays(run.tempDate, -1)]
         ELSE [run EXCEPT !.pc = "forward",
                          !.extraEndDate = run.vacationEndDate,
                          !.tempDate = AddDays(run.vacationEndDate, 1)]
    /\ UNCHANGED <<formData, holidays, vacationPeriods, showCalendars,
                   expandedExtraDays, expandedPeriods, searchResults,
                   uncaughtError, dst, provider, isMinimized>>

\* one test of the while loop of calculateExtraEndDate
forwardStep ==
    /\ run.pc = "forward"
    /\ run' =
         IF isWeekendOrHoliday(run.tempDate)
         THEN [run EXCEPT !.extraEndDate = AddDays(run.extraEndDate, 1),
                          !.tempDate = AddDays(run.tempDate, 1)]
         ELSE [run EXCEPT !.pc = "push"]
    /\ UNCHANGED <<formData, holidays, vacationPeriods, showCalendars,
                   expandedExtraDays, expandedPeriods, searchResults,
                   uncaughtError, dst, provider, isMinimized>>

\* the rest of the scan's body: overlap check, push, increment
pushStep ==
    /\ run.pc = "push"
    /\ LET overlaps == checkForOverlaps(run.extraStartDate, run.extraEndDate, <<>>, 0)
           period == [startDate |-> run.extraStartDate,
                      endDate |-> run.extraEndDate,
                      usedStartDate |-> run.currentDate,
                      usedEndDate |-> run.vacationEndDate,
                      daysCount |-> run.vacationDays]
           pushed == IF ~overlaps
                     THEN Append(run.candidatePeriods,
                                 [period |-> period,
                                  totalDaysOff |-> calculateTotalDaysOff(period)])
                     ELSE run.candidatePeriods
       IN run' = [run EXCEPT !.pc = "scan", !.candidatePeriods = pushed,
                             !.currentDate = ScanAdvance(run.currentDate)]
    /\ UNCHANGED <<formData, holidays, vacationPeriods, showCalendars,
                   expandedExtraDays, expandedPeriods, searchResults,
                   uncaughtError, dst, provider, isMinimized>>

\* after the scan: throw (caught by the sweep) or sort and return, then
\* vacationDays++
returnStep ==
    /\ run.pc = "return"
    /\ LET thrown == Len(run.candidatePeriods) = 0
           sorted == SortCandidates(run.candidatePeriods, formData.startDate)
           periods == [i \in 1..Len(sorted) |-> sorted[i].period]
           outcome == [daysCount |-> run.vacationDays, thrown |-> thrown,
                       periods |-> IF thrown THEN <<>> ELSE periods,
                       existingPeriods |-> <<>>, minGapBetweenPeriods |-> 0]
       IN run' = [run EXCEPT !.pc = "for",
                             !.vacationDays = run.vacationDays + 1,
                             !.all = IF thrown THEN @ ELSE @ \o periods,
                             !.log = Append(@, outcome)]
    /\ UNCHANGED <<formData, holidays, vacationPeriods, showCalendars,
                   expandedExtraDays, expandedPeriods, searchResults,
                   uncaughtError, dst, provider, isMinimized>>

\* after the sweep: filter, sort and the four setters
publishStep ==
    /\ run.pc = "publish"
    /\ vacationPeriods' = SortPeriods(FilterPeriods(run.all))
    /\ showCalendars' = TRUE
    /\ expandedExtraDays' = {}
    /\ expandedPeriods' = {}
    /\ searchResults' = run.log
    /\ run' = IdleRun
    /\ UNCHANGED <<formData, holidays, uncaughtError, dst, provider, isMinimized>>

\* a form with a valid horizon, as the Calculate button requires
InitSteps ==
    /\ dst \in DstChoices
    /\ \E T \in SpanTables :
          provider = [r \in Regions |-> IF r = <<"BR", "">> THEN T ELSE <<>>]
    /\ \E s \in {day * TPD + tod : day \in StartDays, tod \in Tods},
          mn \in {MaxDays - 1} :
          formData = [workCountry |-> "BR", workState |-> "",
                      minVacationDays |-> mn, maxVacationDays |-> MaxDays,
                      startDate |-> s, endDate |-> setHours0(s) + MaxSpan * TPD + 1]
    /\ holidays = holidaysMemo(formData)
    /\ vacationPeriods = <<>>
    /\ showCalendars = FALSE
    /\ expandedExtraDays = {}
    /\ expandedPeriods = {}
    /\ searchResults = <<>>
    /\ uncaughtError = FALSE
    /\ isMinimized = FALSE
    /\ run = IdleRun

NextSteps ==
    \/ beginCalculate
    \/ forTest
    \/ scanStep
    \/ backStep
    \/ forwardStep
    \/ pushStep
    \/ returnStep
    \/ publishStep

\* the handler is run by the browser's event loop without interruption: a
\* step that can be taken is taken
SpecSteps == InitSteps /\ [][NextSteps]_vars /\ WF_vars(NextSteps)

\* --------------------------------------------------------- editing the form
\* what a number field can be made to hold: "", ".5", "1.5"
NumberInputs == { <<>>, <<".", "5">>, <<"1", ".", "5">> }

\* what a date field can be made to hold: "" (cleared) or the date of a
\* local day, <<day>> standing for its yyyy-mm-dd string
DateInputs == { <<>>, <<13>> }

\* the options of the two selects ("-" is the state select's first option)
CountryOptions == {"BR", "US"}

StateOptions == {"-"}

\* new Date(e.target.value) of a date field: Invalid Date for "", else UTC
\* midnight of the date, read on the host's clock (one hour east of UTC)
newDate(value) ==
    IF value = <<>> THEN InvalidDate
    ELSE LET utcMidnight == value[1] * TPD + 1
         IN utcMidnight + Off(utcMidnight)

\* onChange of the selects
handleInputChange ==
    \E name \in {"workCountry", "workState"} :
       \E value \in (IF name = "workCountry" THEN CountryOptions ELSE StateOptions) :
          /\ formData' = [formData EXCEPT ![name] = value]
          /\ holidays' = holidaysMemo(formData')
          /\ UNCHANGED <<vacationPeriods, showCalendars, expandedExtraDays,
                         expandedPeriods, searchResults, uncaughtError, dst, provider,
                   isMinimized, run>>

\* onChange of the two number fields
handleNumberChange ==
    \E name \in {"minVacationDays", "maxVacationDays"}, value \in NumberInputs :
       LET numValue == IF value = <<>> THEN 0 ELSE parseInt(value)
       IN /\ formData' = [formData EXCEPT ![name] = numValue]
          /\ holidays' = holidaysMemo(formData')
          /\ UNCHANGED <<vacationPeriods, showCalendars, expandedExtraDays,
                         expandedPeriods, searchResults, uncaughtError, dst, provider,
                   isMinimized, run>>

\* onChange of the Start Date field
handleStartDateChange ==
    \E value \in DateInputs :
       /\ formData' = [formData EXCEPT !.startDate = newDate(value)]
       /\ holidays' = holidaysMemo(formData')
       /\ UNCHANGED <<vacationPeriods, showCalendars, expandedExtraDays,
                      expandedPeriods, searchResults, uncaughtError, dst, provider,
                   isMinimized, run>>

\* onChange of the End Date field
handleEndDateChange ==
    \E value \in DateInputs :
       /\ formData' = [formData EXCEPT !.endDate = newDate(value)]
       /\ holidays' = holidaysMemo(formData')
       /\ UNCHANGED <<vacationPeriods, showCalendars, expandedExtraDays,
                      expandedPeriods, searchResults, uncaughtError, dst, provider,
                   isMinimized, run>>

\* the results view: periodsByExtraDays.get(extraDays), in published order
PeriodsByExtraDays(extraDays) ==
    SelectSeq(vacationPeriods, LAMBDA period : ExtraDays(period) = extraDays)

\* keys of periodsByExtraDays
ExtraDaysKeys == {ExtraDays(vacationPeriods[i]) : i \in 1..Len(vacationPeriods)}

\* new Set(set) with key deleted if present, added otherwise
Toggled(set, key) == IF key \in set THEN set \ {key} ELSE set \cup {key}

\* onClick of an extra-days row
toggleExtraDays ==
    /\ showCalendars
    /\ \E extraDays \in ExtraDaysKeys :
          expandedExtraDays' = Toggled(expandedExtraDays, extraDays)
    /\ UNCHANGED <<formData, holidays, vacationPeriods, showCalendars,
                   expandedPeriods, searchResults, uncaughtError, dst, provider,
                   isMinimized, run>>

\* onClick of a date-range row, rendered while its extra-days row is
\* expanded; the key `${extraDays}-${index}` is the pair
togglePeriod ==
    /\ showCalendars
    /\ \E extraDays \in ExtraDaysKeys \cap expandedExtraDays :
          \E index \in 0..(Len(PeriodsByExtraDays(extraDays)) - 1) :
             expandedPeriods' = Toggled(expandedPeriods, <<extraDays, index>>)
    /\ UNCHANGED <<formData, holidays, vacationPeriods, showCalendars,
                   expandedExtraDays, searchResults, uncaughtError, dst, provider,
                   isMinimized, run>>

\* The component with a form of a short horizon and small day counts, under
\* a fixed-offset host and a provider with one holiday in the BR calendar.
InitForm ==
    /\ dst = [on |-> FALSE, at |-> 0, shift |-> 0]
    /\ provider = [r \in Regions |->
                      IF r[1] = "BR" THEN <<HolidaySpan(11, 1, "Thursday")>> ELSE <<>>]
    /\ formData = [workCountry |-> "BR", workState |-> "",
                   minVacationDays |-> 1, maxVacationDays |-> 2,
                   startDate |-> 12 * TPD + 14, endDate |-> 15 * TPD + 14]
    /\ holidays = holidaysMemo(formData)
    /\ vacationPeriods = <<>>
    /\ showCalendars = FALSE
    /\ expandedExtraDays = {}
    /\ expandedPeriods = {}
    /\ searchResults = <<>>
    /\ uncaughtError = FALSE
    /\ isMinimized = FALSE
    /\ run = IdleRun

\* A form whose horizon begins in 2024 and ends in 2025, over any of the
\* holiday tables for the BR calendar and one holiday in the US calendar.
InitHolidays ==
    /\ dst \in DstChoices
    /\ \E T \in HolidayTables :
          provider = [r \in Regions |->
                         IF r[1] = "BR" THEN T ELSE <<HolidaySpan(8, 1, "Monday")>>]
    /\ formData = [workCountry |-> "BR", workState |-> "",
                   minVacationDays |-> 1, maxVacationDays |-> 2,
                   startDate |-> 8 * TPD + 14, endDate |-> 15 * TPD + 14]
    /\ holidays = holidaysMemo(formData)
    /\ vacationPeriods = <<>>
    /\ showCalendars = FALSE
    /\ expandedExtraDays = {}
    /\ expandedPeriods = {}
    /\ searchResults = <<>>
    /\ uncaughtError = FALSE
    /\ isMinimized = FALSE
    /\ run = IdleRun

\* the form edits, each of which re-evaluates the holiday memo
NextHolidays ==
    \/ handleInputChange
    \/ handleNumberChange
    \/ handleStartDateChange
    \/ handleEndDateChange

SpecHolidays == InitHolidays /\ [][NextHolidays]_vars

\* onClick of the form card's minimize button
toggleMinimized ==
    /\ isMinimized' = ~isMinimized
    /\ UNCHANGED <<formData, holidays, vacationPeriods, showCalendars,
                   expandedExtraDays, expandedPeriods, searchResults,
                   uncaughtError, dst, provider, run>>

NextForm ==
    \/ toggleMinimized
    \/ handleInputChange
    \/ handleNumberChange
    \/ handleStartDateChange
    \/ handleEndDateChange
    \/ handleCalculate
    \/ toggleExtraDays
    \/ togglePeriod

SpecForm == InitForm /\ [][NextForm]_vars

Spec == Init /\ [][Next]_vars

\* =================================================================== claims
\* Calendar-day vocabulary of the claims, independent of the Date operators:
\* the local calendar day of a Date, the days the holiday list names, and the
\* days that are neither Saturday, Sunday nor holiday.
Day(d) == d \div TPD

HolidayDays == {Day(holidays[i].date) : i \in 1..Len(holidays)}

IsWorkdayDay(n) == n % 7 # 0 /\ n % 7 # 6 /\ n \notin HolidayDays

\* the periods of the final output, and the candidates the searches of the
\* last sweep returned
Published == {vacationPeriods[i] : i \in 1..Len(vacationPeriods)}

Candidates ==
    UNION {{searchResults[i].periods[j] : j \in 1..Len(searchResults[i].periods)} :
             i \in 1..Len(searchResults)}

\* C1: every published period satisfies extendedStart <= coreStart <= coreEnd
\* <= extendedEnd, and its core block counts exactly dayCount calendar days.
C1_WindowContainment ==
    \A p \in Published :
        /\ DateLeq(p.startDate, p.usedStartDate)
        /\ DateLeq(p.usedStartDate, p.usedEndDate)
        /\ DateLeq(p.usedEndDate, p.endDate)
        /\ Day(p.usedEndDate) - Day(p.usedStartDate) + 1 = p.daysCount

\* C1 witness: a published period of several days, extended on both sides,
\* whose core block crosses the zone's offset change (so its length in hours
\* is not a whole number of days).
C1_Witness ==
    \E p \in Published :
        /\ p.daysCount >= 2
        /\ p.startDate < p.usedStartDate
        /\ p.usedEndDate < p.endDate
        /\ getTime(p.usedEndDate) - getTime(p.usedStartDate) # (p.daysCount - 1) * TPD

\* C2: the first core day of every candidate, and so of every published
\* period, is a workday: not Saturday, not Sunday, not a holiday.
C2_CoreStartIsWorkday ==
    \A p \in Candidates \cup Published : IsWorkdayDay(Day(p.usedStartDate))

\* C2 witness: a sweep returned candidates although the horizon starts on a
\* holiday and holds a weekend: those days were skipped as core starts.
C2_Witness ==
    /\ Candidates # {}
    /\ Published # {}
    /\ Day(formData.startDate) \in HolidayDays
    /\ \E n \in Day(formData.startDate)..Day(formData.endDate) : n % 7 = 6

\* C3: for every published period the day before extendedStart and the day
\* after extendedEnd are workdays, whether or not they lie in the horizon.
C3_MaximalExpansion ==
    \A p \in Published :
        /\ IsWorkdayDay(Day(p.startDate) - 1)
        /\ IsWorkdayDay(Day(p.endDate) + 1)

\* C3 witness: a published period whose forward expansion ran over a weekend
\* and a holiday and ended outside the horizon.
C3_Witness ==
    \E p \in Published :
        /\ \E n \in Day(p.usedEndDate)..Day(p.endDate) : n \in HolidayDays
        /\ p.endDate - p.usedEndDate >= 3 * TPD
        /\ getTime(p.endDate) > getTime(formData.endDate)

\* C4: every day of a candidate's extended window outside its core block is a
\* non-workday: the expansion takes no workday and skips none.
C4_ContiguousBonusRuns ==
    \A p \in Candidates \cup Published :
        /\ \A n \in Day(p.startDate)..(Day(p.usedStartDate) - 1) : ~IsWorkdayDay(n)
        /\ \A n \in (Day(p.usedEndDate) + 1)..Day(p.endDate) : ~IsWorkdayDay(n)

\* C4 witness: a candidate extended backward but not forward, although a
\* holiday lies just one workday beyond its last core day.
C4_Witness ==
    \E p \in Candidates :
        /\ p.endDate = p.usedEndDate
        /\ IsWorkdayDay(Day(p.endDate) + 1)
        /\ Day(p.endDate) + 2 \in HolidayDays
        /\ p.startDate < p.usedStartDate

\* C5: every published period has extraDays > 0, both as the code computes
\* it (whole days between the instants of extendedStart and extendedEnd, plus
\* one, minus dayCount) and counted in calendar days.
C5_PositiveExtraDays ==
    \A p \in Published :
        /\ ExtraDays(p) > 0
        /\ (Day(p.endDate) - Day(p.startDate) + 1) - p.daysCount > 0

\* C5 witness: a sweep whose candidates include one without extra days,
\* which was dropped, and one with extra days, which was published.
C5_Witness ==
    /\ Published # {}
    /\ \E p \in Candidates : ExtraDays(p) <= 0 /\ p \notin Published

ScanDates ==
    {AddDays(formData.startDate, n) :
        n \in 0..(Day(formData.endDate) - Day(formData.startDate))}

AdmissibleStarts(k) ==
    {d \in ScanDates :
        /\ getTime(formData.startDate) <= getTime(d)
        /\ IsWorkdayDay(Day(d))
        /\ getTime(AddDays(d, k - 1)) <= getTime(formData.endDate)}

C8_CoreInsideHorizon ==
    \A p \in Candidates \cup Published :
        /\ getTime(formData.startDate) <= getTime(p.usedStartDate)
        /\ getTime(p.usedEndDate) <= getTime(formData.endDate)

\* C8 witness: a published period whose core block fills the horizon from its
\* first to its last day while its extended window leaves it on both sides.
C8_Witness ==
    \E p \in Published :
        /\ p.usedStartDate = formData.startDate
        /\ Day(p.usedEndDate) = Day(formData.endDate)
        /\ p.startDate < formData.startDate
        /\ getTime(p.endDate) > getTime(formData.endDate)

C10_EmptyResultNotError ==
    /\ ~uncaughtError
    /\ searchResults # <<>> =>
          /\ showCalendars
          /\ (\A p \in Candidates : ExtraDays(p) <= 0) => vacationPeriods = <<>>

\* C10 witness: every dayCount of a sweep over several day-counts signalled
\* NoCandidateFound, and the results view shows an empty list.
C10_Witness ==
    /\ Len(searchResults) >= 2
    /\ \A i \in 1..Len(searchResults) : searchResults[i].thrown
    /\ showCalendars
    /\ vacationPeriods = <<>>

\* the other empty case of C10: candidates were found, none has extra days
C10_WitnessNoBenefit ==
    /\ Candidates # {}
    /\ \A p \in Candidates : ExtraDays(p) <= 0
    /\ showCalendars
    /\ vacationPeriods = <<>>

StartDistance(p) ==
    LET d == getTime(p.usedStartDate) - getTime(formData.startDate)
    IN IF d < 0 THEN -d ELSE d

C18_ImplicitTieOrder ==
    \A i, j \in 1..Len(vacationPeriods) :
        i < j =>
            LET a == vacationPeriods[i]
                b == vacationPeriods[j]
            IN \/ ExtraDays(a) > ExtraDays(b)
               \/ /\ ExtraDays(a) = ExtraDays(b)
                  /\ getTime(a.usedStartDate) < getTime(b.usedStartDate)
               \/ /\ ExtraDays(a) = ExtraDays(b)
                  /\ getTime(a.usedStartDate) = getTime(b.usedStartDate)
                  /\ a.daysCount < b.daysCount

\* C18 witness: two published periods tie on extraDays and coreStart, and the
\* search that returned the first of them had ordered its candidates
\* otherwise than by coreStart.
C18_Witness ==
    /\ \E i, j \in 1..Len(vacationPeriods) :
          /\ i < j
          /\ ExtraDays(vacationPeriods[i]) = ExtraDays(vacationPeriods[j])
          /\ vacationPeriods[i].usedStartDate = vacationPeriods[j].usedStartDate
    /\ \E r \in 1..Len(searchResults) :
          LET ps == searchResults[r].periods
          IN \E i, j \in 1..Len(ps) : i < j /\ ps[i].usedStartDate > ps[j].usedStartDate

\* the provider's spans for the region the form names
RegionSpans == provider[<<formData.workCountry, formData.workState>>]

\* the (span, day offset) pairs the index must hold: spans that begin in a
\* year from the horizon's start year to its end year, and each day from
\* spanStart on that is before spanEnd
ExpectedEntries ==
    {x \in {<<i, n>> : i \in 1..Len(RegionSpans), n \in 0..(2 * MaxSpan)} :
        LET h == RegionSpans[x[1]]
        IN /\ getFullYear(h.start) >= getFullYear(formData.startDate)
           /\ getFullYear(h.start) <= getFullYear(formData.endDate)
           /\ getTime(h.start + x[2] * TPD) < getTime(h.end)}

EntryOf(x) ==
    [date |-> RegionSpans[x[1]].start + x[2] * TPD, name |-> RegionSpans[x[1]].name]

\* C14: with two valid horizon dates, the holiday list holds, for every year
\* from the horizon's start year to its end year and every span the provider
\* reports for that year, exactly one entry per day from spanStart up to but
\* excluding spanEnd, under the span's name, and nothing else: no entry of a
\* span falls on the day of its spanEnd or later, and the list is the union
\* over those years.
C14_HolidayFlattening ==
    (~isNaN(formData.startDate) /\ ~isNaN(formData.endDate)) =>
        /\ Len(holidays) = Cardinality(ExpectedEntries)
        /\ \A x \in ExpectedEntries :
              Cardinality({k \in 1..Len(holidays) : holidays[k] = EntryOf(x)})
                = Cardinality({y \in ExpectedEntries : EntryOf(y) = EntryOf(x)})
        /\ \A i \in 1..Len(RegionSpans), k \in 1..Len(holidays) :
              holidays[k].name = RegionSpans[i].name
                 => Day(holidays[k].date) < Day(RegionSpans[i].end)

\* C14 witness: after an edit of the end date the horizon runs from 2024
\* into 2025, and the list holds the days of a span of several days that
\* begins in 2024, one entry each, and those of a span of 2025.
C14_Witness ==
    /\ formData.endDate = newDate(<<13>>)
    /\ ~isNaN(formData.startDate)
    /\ getFullYear(formData.startDate) < getFullYear(formData.endDate)
    /\ Len(RegionSpans) = 2
    /\ \E i \in 1..Len(RegionSpans) :
          /\ Day(RegionSpans[i].end) - Day(RegionSpans[i].start) >= 2
          /\ \A n \in 0..(Day(RegionSpans[i].end) - Day(RegionSpans[i].start) - 1) :
                Cardinality({k \in 1..Len(holidays) :
                                holidays[k] = [date |-> RegionSpans[i].start + n * TPD,
                                               name |-> RegionSpans[i].name]}) = 1
    /\ Len(holidays) = 4

\* C14 witness, second case: the horizon lies in 2025 and the span that
\* begins in 2024 is left out, days of 2025 included.
C14_WitnessYearLeftOut ==
    /\ ~isNaN(formData.startDate) /\ ~isNaN(formData.endDate)
    /\ getFullYear(formData.startDate) = 2025
    /\ \E i \in 1..Len(RegionSpans) : getFullYear(RegionSpans[i].start) = 2024
    /\ Len(holidays) = 1

\* ------------------------------------------------------------- Scenario A
\* Local days of Scenario A, with day 10 = Wednesday 2025-01-01: the holiday
\* and horizon start, the core window Mon 01-06 .. Fri 01-10, and the
\* expected extended window Sat 01-04 .. Sun 01-12.
ScenarioA ==
    [horizonStart |-> 10, coreStart |-> 15, coreEnd |-> 19,
     extendedStart |-> 13, extendedEnd |-> 21, dayCount |-> 5]

\* host zones of 2025: a fixed offset, or the clock put forward on Sunday
\* 2025-03-30 (none changes its offset in January 2025)
ScenarioDst ==
    { [on |-> FALSE, at |-> 0, shift |-> 0],
      [on |-> TRUE, at |-> 98 * TPD + 2, shift |-> 1] }

\* The form of Scenario A: the horizon starts on 2025-01-01, a range of day
\* counts around 5, and a provider that reports 2025-01-01 only.  Of the
\* horizon 2025-01-01..2025-12-31 the model keeps the days up to ScenarioTail
\* days after the core window.
InitScenarioA ==
    /\ dst \in ScenarioDst
    /\ provider = [r \in Regions |->
                      IF r = <<"BR", "">>
                      THEN <<HolidaySpan(ScenarioA.horizonStart, 1, "New Year")>>
                      ELSE <<>>]
    /\ \E st \in Tods, et \in Tods, tail \in 0..ScenarioTail,
          mn \in {ScenarioA.dayCount - 1, ScenarioA.dayCount},
          mx \in {ScenarioA.dayCount, ScenarioA.dayCount + 1} :
          formData = [workCountry |-> "BR", workState |-> "",
                      minVacationDays |-> mn, maxVacationDays |-> mx,
                      startDate |-> ScenarioA.horizonStart * TPD + st,
                      endDate |-> (ScenarioA.coreEnd + tail) * TPD + et]
    /\ holidays = holidaysMemo(formData)
    /\ vacationPeriods = <<>>
    /\ showCalendars = FALSE
    /\ expandedExtraDays = {}
    /\ expandedPeriods = {}
    /\ searchResults = <<>>
    /\ uncaughtError = FALSE
    /\ isMinimized = FALSE
    /\ run = IdleRun

SpecScenarioA == InitScenarioA /\ [][Next]_vars

\* the Scenario A candidate: 5 days from Monday 2025-01-06
IsScenarioACandidate(p) ==
    /\ p.daysCount = ScenarioA.dayCount
    /\ Day(p.usedStartDate) = ScenarioA.coreStart

\* C12: in Scenario A the candidate of 5 days with core window Mon
\* 2025-01-06 .. Fri 2025-01-10 has extendedStart Sat 2025-01-04 and
\* extendedEnd Sun 2025-01-12, totalDaysOff 9 and extraDays 4, wherever a
\* search returns it and where it is published.
C12_ScenarioA ==
    \A p \in Candidates \cup Published :
        IsScenarioACandidate(p) =>
            /\ Day(p.usedEndDate) = ScenarioA.coreEnd
            /\ Day(p.startDate) = ScenarioA.extendedStart
            /\ Day(p.endDate) = ScenarioA.extendedEnd
            /\ calculateTotalDaysOff(p) = 9
            /\ ExtraDays(p) = 4

\* C12 witness: the search of day count 5 returned the candidate and it is
\* published.
C12_Witness ==
    /\ \E p \in Candidates : IsScenarioACandidate(p)
    /\ \E p \in Published : IsScenarioACandidate(p)
    /\ HolidayDays = {ScenarioA.horizonStart}

\* ------------------------------------------------- the search, standalone
\* an accepted period handed to a search as existing: local days a..b
ExistingPeriod(a, b, tod) ==
    [startDate |-> a * TPD + tod, endDate |-> b * TPD + tod,
     usedStartDate |-> a * TPD + tod, usedEndDate |-> b * TPD + tod,
     daysCount |-> b - a + 1]

\* the lists of existing periods a search is called with
ExistingChoices ==
    { <<>>,
      <<ExistingPeriod(16, 17, 1)>>,
      <<ExistingPeriod(16, 17, 14)>>,
      <<ExistingPeriod(9, 9, 14)>>,
      <<ExistingPeriod(9, 9, 1), ExistingPeriod(18, 19, 14)>>,
      <<ExistingPeriod(19, 19, 1), ExistingPeriod(8, 8, 14)>> }

\* a form with a valid horizon of MaxSpan days, no search run yet
InitSearch ==
    /\ dst \in DstChoices
    /\ \E T \in SpanTables :
          provider = [r \in Regions |-> IF r = <<"BR", "">> THEN T ELSE <<>>]
    /\ \E s \in {day * TPD + tod : day \in StartDays, tod \in Tods}, et \in Tods,
          mn \in {1}, mx \in {MaxDays} :
          formData = [workCountry |-> "BR", workState |-> "",
                      minVacationDays |-> mn, maxVacationDays |-> mx,
                      startDate |-> s, endDate |-> setHours0(s) + MaxSpan * TPD + et]
    /\ holidays = holidaysMemo(formData)
    /\ vacationPeriods = <<>>
    /\ showCalendars = FALSE
    /\ expandedExtraDays = {}
    /\ expandedPeriods = {}
    /\ searchResults = <<>>
    /\ uncaughtError = FALSE
    /\ isMinimized = FALSE
    /\ run = IdleRun

\* one call findBestAvailablePeriods(startDate, endDate, existingPeriods,
\* daysCount, minGapBetweenPeriods) over the form's horizon; the function
\* keeps nothing between calls, so a behaviour makes one
findBestAvailablePeriodsCall ==
    /\ searchResults = <<>>
    /\ \E existingPeriods \in ExistingChoices, daysCount \in 1..MaxDays,
          minGapBetweenPeriods \in 0..MaxGap :
          LET r == findBestAvailablePeriods(formData.startDate, formData.endDate,
                                            existingPeriods, daysCount,
                                            minGapBetweenPeriods)
          IN searchResults' = <<[daysCount |-> daysCount, thrown |-> r.thrown,
                                 periods |-> r.periods,
                                 existingPeriods |-> existingPeriods,
                                 minGapBetweenPeriods |-> minGapBetweenPeriods]>>
    /\ UNCHANGED <<formData, holidays, vacationPeriods, showCalendars,
                   expandedExtraDays, expandedPeriods, uncaughtError, dst, provider,
                   isMinimized, run>>

NextSearch == findBestAvailablePeriodsCall

SpecSearch == InitSearch /\ [][NextSearch]_vars

\* two closed intervals of instants share a point
Intersects(aLo, aHi, bLo, bHi) ==
    \E t \in {aLo, aHi, bLo, bHi} : aLo <= t /\ t <= aHi /\ bLo <= t /\ t <= bHi

\* the candidate of k days from d has its buffered window
\* [extendedStart - minGap, extendedEnd + minGap] (in days) meet the
\* [start, end] of an existing period
BufferedWindowMeets(d, k, existingPeriods, minGap) ==
    LET extendedStart == calculateExtraStartDate(d)
        extendedEnd == calculateExtraEndDate(AddDays(d, k - 1))
    IN \E i \in 1..Len(existingPeriods) :
          Intersects(getTime(AddDays(extendedStart, -minGap)),
                     getTime(AddDays(extendedEnd, minGap)),
                     getTime(existingPeriods[i].startDate),
                     getTime(existingPeriods[i].endDate))

\* C15: a search called with existingPeriods and minGap returns exactly the
\* candidates of the horizon whose buffered window meets no existing period
\* (bounds inclusive): a candidate is rejected iff it meets at least one, and
\* with existingPeriods empty none is rejected.
C15_OverlapRejection ==
    \A r \in 1..Len(searchResults) :
        LET o == searchResults[r]
            starts == {o.periods[j].usedStartDate : j \in 1..Len(o.periods)}
            kept == {d \in AdmissibleStarts(o.daysCount) :
                        ~BufferedWindowMeets(d, o.daysCount, o.existingPeriods,
                                             o.minGapBetweenPeriods)}
        IN /\ starts = kept
           /\ Len(o.periods) = Cardinality(kept)
           /\ o.existingPeriods = <<>> => starts = AdmissibleStarts(o.daysCount)

\* C15 witness: a search with a gap and existing periods rejected a candidate
\* whose buffered window only touches an existing period (its last instant
\* is the period's first) and kept another candidate.
C15_Witness ==
    \E r \in 1..Len(searchResults) :
        LET o == searchResults[r]
            starts == {o.periods[j].usedStartDate : j \in 1..Len(o.periods)}
        IN /\ o.minGapBetweenPeriods > 0
           /\ starts # {}
           /\ \E d \in AdmissibleStarts(o.daysCount) \ starts :
                 \E i \in 1..Len(o.existingPeriods) :
                    getTime(AddDays(calculateExtraEndDate(AddDays(d, o.daysCount - 1)),
                                    o.minGapBetweenPeriods))
                      = getTime(o.existingPeriods[i].startDate)

\* C15 witness, second case: a search with no existing periods and a gap
\* returned every candidate of the horizon.
C15_WitnessEmpty ==
    \E r \in 1..Len(searchResults) :
        /\ searchResults[r].existingPeriods = <<>>
        /\ searchResults[r].minGapBetweenPeriods > 0
        /\ Len(searchResults[r].periods) >= 2

\* ------------------------------------------------------ claims on the form
\* a configuration a search may start from: both horizon dates valid,
\* horizonEnd after horizonStart, both day counts numbers of at least 1, and
\* minDays <= maxDays
ValidConfig ==
    /\ formData.startDate # InvalidDate
    /\ formData.endDate # InvalidDate
    /\ getTime(formData.endDate) > getTime(formData.startDate)
    /\ formData.minVacationDays # NaN /\ formData.minVacationDays >= 1
    /\ formData.maxVacationDays # NaN /\ formData.maxVacationDays >= 1
    /\ formData.minVacationDays <= formData.maxVacationDays

\* C13: whatever edits the form has gone through, Calculate is enabled only
\* on a valid configuration, so that no search starts from a configuration
\* that violates one of the conditions.
C13_InvalidBlocksInvocation == ~hasErrors => ValidConfig

\* C13, the run itself: Calculate has run on a form whose day counts admit no
\* day count at all (the sweep called no search), which no valid
\* configuration does.
C13_RanOnInvalidConfig ==
    /\ showCalendars
    /\ searchResults = <<>>
    /\ vacationPeriods = <<>>

\* C17: the published list changes only in a Calculate step, which leaves
\* the form alone, makes the results view visible and empties both
\* expanded-key sets; a form edit leaves the list and the view as they are,
\* and so does a toggle.
C17_ResultsChangeOnlyOnCalculate ==
    [][/\ (vacationPeriods' # vacationPeriods \/ showCalendars' # showCalendars)
            => /\ formData' = formData
               /\ showCalendars'
               /\ expandedExtraDays' = {}
               /\ expandedPeriods' = {}
       /\ (formData' # formData \/ isMinimized' # isMinimized)
            => UNCHANGED <<vacationPeriods, showCalendars,
                           expandedExtraDays, expandedPeriods>>
       /\ (Cardinality(expandedExtraDays') > Cardinality(expandedExtraDays)
             \/ Cardinality(expandedPeriods') > Cardinality(expandedPeriods))
            => UNCHANGED <<vacationPeriods, showCalendars, formData>>
       /\ (~hasErrors /\ formData' = formData /\ searchResults' # searchResults)
            => (showCalendars' /\ expandedExtraDays' = {} /\ expandedPeriods' = {})
      ]_vars

\* C17 witness: a list of several periods is published, a group and one of
\* its periods are expanded, and the form has since been edited into a
\* configuration that is not the one the list was computed from.
C17_Witness ==
    /\ showCalendars
    /\ Len(vacationPeriods) >= 2
    /\ expandedExtraDays # {}
    /\ expandedPeriods # {}
    /\ hasErrors
    /\ formData.workCountry = "US"

\* ------------------------------------------------------------ termination
\* what one atomic handleCalculate computes from the form
SweptAtOnce ==
    SweepLoop(SweepStart, formData.minVacationDays, formData.maxVacationDays,
              formData.startDate, formData.endDate)

\* the loop-by-loop handler publishes what handleCalculate publishes
StepsAgreeWithCalculate ==
    (run.pc = "idle" /\ showCalendars) =>
        /\ vacationPeriods = SortPeriods(FilterPeriods(SweptAtOnce.all))
        /\ searchResults = SweptAtOnce.log

\* C19: every loop of a Calculate stops: the backward and the forward
\* expansion of a candidate each end, the scan of each day count ends, and a
\* Calculate that was started publishes its list.
C19_Termination ==
    /\ (run.pc = "back") ~> (run.pc = "forward")
    /\ (run.pc = "forward") ~> (run.pc = "push")
    /\ (run.pc = "scan") ~> (run.pc = "return")
    /\ (run.pc # "idle") ~> (run.pc = "idle" /\ showCalendars)

\* C19 witness: a Calculate is running, its backward expansion has already
\* taken two steps, and an earlier day count has returned candidates.
C19_Witness ==
    /\ run.pc = "back"
    /\ run.extraStartDate = AddDays(run.currentDate, -2)
    /\ Len(run.all) >= 2
    /\ run.vacationDays >= 2

====
